---- MODULE Spec2Model ----
(***************************************************************************)
(* Slimechain algorithm engine (src/src/lib.rs), its CLI adapter           *)
(* (src/src/bin/slimechain-algo.rs) and the tier/oracle overlay            *)
(* (src/samples/musk_mode.rs).                                             *)
(*                                                                         *)
(* Numbers.  Every f64 of the program is modelled as a fixed-point number: *)
(* the integer n stands for n / Scale.  Products and quotients are rounded *)
(* to the nearest representable value, as IEEE arithmetic does at its own  *)
(* resolution.  exp, ln and powf are computed by series at that            *)
(* resolution.  USD amounts and prices of the overlay are counted in units *)
(* of 1e-9 USD, so that the divisor floor 1e-9 is the integer 1.  NaN and   *)
(* the infinities are outside the model.                                   *)
(***************************************************************************)
EXTENDS Integers, Sequences, FiniteSets, TLC

VARIABLES
    op,       \* name of the function the caller invoked last ("none" at start)
    arg,      \* the arguments of that call
    ret,      \* what the call returned (and the intermediate values it computed)
    params,   \* the Params bundle the caller passes to every call
    base,     \* the caller-held base fare threaded through update_base_cost
    calls,    \* how many times the caller has fed the base fare back
    oracle    \* the price oracle: the quotes it will report and its query count

vars == <<op, arg, ret, params, base, calls, oracle>>

\* ------------------------------------------------------------------ numbers

\* Fixed-point resolution: n stands for n / Scale.
Scale == 10^3

\* The one element of a singleton set.  The helpers below bind each argument
\* once through a singleton set before they use it several times.
Only(S) == CHOOSE v \in S : TRUE

Max2(a, b) == Only({ IF x >= y THEN x ELSE y : x \in {a}, y \in {b} })
Min2(a, b) == Only({ IF x <= y THEN x ELSE y : x \in {a}, y \in {b} })

\* n / d rounded to the nearest integer (ties away from zero), d > 0.
RoundDiv(n, d) ==
    Only({ IF m >= 0 THEN (m + e \div 2) \div e ELSE -((-m + e \div 2) \div e)
           : m \in {n}, e \in {d} })

\* f64 multiplication and division at the model's resolution.
MulFix(a, b) == RoundDiv(a * b, Scale)
DivFix(a, b) == RoundDiv(a * Scale, b)

\* Taylor polynomial of exp on [0, 1], degree 6, in Horner form:
\* 1 + r(1 + r/2 (1 + r/3 (1 + r/4 (1 + r/5 (1 + r/6))))).
ExpSeries(r) ==
    LET h6 == Scale + RoundDiv(r, 6)
        h5 == Scale + RoundDiv(r * h6, 5 * Scale)
        h4 == Scale + RoundDiv(r * h5, 4 * Scale)
        h3 == Scale + RoundDiv(r * h4, 3 * Scale)
        h2 == Scale + RoundDiv(r * h3, 2 * Scale)
    IN  Scale + RoundDiv(r * h2, Scale)

\* e^v for a value v: e^n times the series of the fractional part, and
\* 1 / e^-v below zero.
RECURSIVE ExpVal(_)
ExpVal(v) ==
    IF v < 0 THEN RoundDiv(Scale * Scale, ExpVal(-v))
    ELSE IF v >= Scale THEN RoundDiv(ExpSeries(Scale) * ExpVal(v - Scale), Scale)
    ELSE ExpSeries(v)

\* f64::exp
ExpFix(x) == Only({ ExpVal(v) : v \in {x} })

\* ln of a value in [1, 2): 2 atanh((y-1)/(y+1)) by its series.
LnSeries(y) ==
    LET t  == RoundDiv((y - Scale) * Scale, y + Scale)
        t2 == RoundDiv(t * t, Scale)
        t3 == RoundDiv(t2 * t, Scale)
        t5 == RoundDiv(t3 * t2, Scale)
        t7 == RoundDiv(t5 * t2, Scale)
    IN  2 * t + RoundDiv(2 * t3, 3) + RoundDiv(2 * t5, 5) + RoundDiv(2 * t7, 7)

\* ln of a value y > 0: halve (or double) into [1, 2), adding ln 2 each time.
RECURSIVE LnVal(_)
LnVal(y) ==
    IF y >= 2 * Scale THEN 693 + LnVal(RoundDiv(y, 2))
    ELSE IF y < Scale THEN LnVal(2 * y) - 693
    ELSE LnSeries(y)

\* f64::ln (arguments of the program are positive where it is called)
LnFix(x) == Only({ LnVal(y) : y \in {x} })

\* f64::powf for a base >= 0: x^e = exp(e ln x), 0^e = 0 for e > 0, x^0 = 1.
PowFix(x, e) ==
    Only({ IF f = 0 THEN Scale
           ELSE IF y = 0 THEN 0
           ELSE ExpFix(MulFix(f, LnFix(y)))
           : y \in {x}, f \in {e} })

\* f64::round: to the nearest integer, ties away from zero (an integer, not
\* a fixed-point number).
RoundFix(x) == RoundDiv(x, Scale)

\* `as u32`: a saturating cast; the upper limit 2^32 - 1 is beyond every
\* value of the model.
AsU32(n) == Max2(n, 0)

\* Option<T>: None is the empty sequence, Some(x) the sequence <<x>>.
None == << >>
Some(x) == << x >>
unwrap_or(opt, d) == IF opt = None THEN d ELSE opt[1]

\* -------------------------------------------------------------- utilities

\* fn clamp(x, lo, hi) = x.max(lo).min(hi)
clamp(x, lo, hi) == Min2(Max2(x, lo), hi)

\* --------------------------------------------------------------- Params

\* fn v(opt: Option<f64>) -> f64 { opt.unwrap_or(0.0) }
v(opt) == unwrap_or(opt, 0)

\* Params::default() (with QWeights::default())
DefaultParams ==
    [ q_weights   |-> [ w_a |-> 200, w_r |-> 200, w_t |-> 200, w_d |-> 150,
                        w_h |-> 200, w_s |-> 250 ],
      q_min       |-> 500,
      ef          |-> [ gamma |-> 800, cap |-> 10000 ],
      cost        |-> [ alpha |-> 700, beta |-> 500, a |-> 1200, b |-> 600,
                        lambda_actor |-> 600, lambda_content |-> 400,
                        rate_limit_per_hour |-> 10000 ],
      propagation |-> [ ttl_base |-> 4000, fanout_base |-> 5000,
                        k1 |-> 2000, k2 |-> 2000 ],
      reward      |-> [ r0 |-> 1000, mu |-> 300 ],
      congestion  |-> [ eta |-> 100, target_load |-> 500000,
                        base_min |-> 100, base_max |-> 100000 ] ]

\* The literal 1e-9 that floors target_load: the smallest positive value of
\* the model's resolution.
TargetFloor == 1

\* An oracle nobody queries (the engine itself has none).
NoOracle == [ quotes |-> << None >>, queries |-> 0 ]

\* --------------------------------------- congestion control base fare

MutExponentSign_update_base_cost(current_base, current_load, p) ==
    LET eta    == p.congestion.eta
        target == Max2(p.congestion.target_load, TargetFloor)
        b      == MulFix(current_base,
                         ExpFix(MulFix(eta, Scale - DivFix(current_load, target))))
    IN  clamp(b, p.congestion.base_min, p.congestion.base_max)

MutNoMinusOne_update_base_cost(current_base, current_load, p) ==
    LET eta    == p.congestion.eta
        target == Max2(p.congestion.target_load, TargetFloor)
        b      == MulFix(current_base,
                         ExpFix(MulFix(eta, DivFix(current_load, target))))
    IN  clamp(b, p.congestion.base_min, p.congestion.base_max)

MutNoClamp_update_base_cost(current_base, current_load, p) ==
    LET eta    == p.congestion.eta
        target == Max2(p.congestion.target_load, TargetFloor)
    IN  MulFix(current_base,
               ExpFix(MulFix(eta, DivFix(current_load, target) - Scale)))

\* pub fn update_base_cost(current_base, current_load, params) -> f64
update_base_cost(current_base, current_load, p) ==
    LET eta    == p.congestion.eta
        target == Max2(p.congestion.target_load, TargetFloor)
        b      == MulFix(current_base,
                         ExpFix(MulFix(eta, DivFix(current_load, target) - Scale)))
    IN  clamp(b, p.congestion.base_min, p.congestion.base_max)

\* The caller's control loop: one observation interval.  The caller passes
\* the fare it holds and a load sample, and keeps the returned fare.
Feed(load) ==
    /\ op' = "update_base_cost"
    /\ arg' = [current_base |-> base, current_load |-> load]
    /\ ret' = update_base_cost(base, load, params)
    /\ base' = ret'
    /\ UNCHANGED <<params, oracle>>

\* Longest feedback run explored under arbitrary load samples.
MaxCalls == 5

\* Load samples are multiples of half the default target load.
LoadStep == 250 * Scale
MaxLoadSteps == 6
Loads == { k * LoadStep : k \in 0..MaxLoadSteps }

\* Fares a caller may start from: below base_min (zero and negative too),
\* inside the band, at base_max and above it.
StartBases == { -1000, 0, 50, 100, 1000, 2500, 90000, 100000, 150000 }

\* Congestion settings: the default bundle and a tighter band with a faster
\* adaptation rate.
TightCongestion ==
    [ eta |-> 250, target_load |-> 250000, base_min |-> 1000, base_max |-> 5000 ]
CongestionParams ==
    { DefaultParams, [DefaultParams EXCEPT !.congestion = TightCongestion] }

InitBase ==
    /\ op = "none"
    /\ arg = [current_base |-> 0, current_load |-> 0]
    /\ ret = 0
    /\ params \in CongestionParams
    /\ base \in StartBases
    /\ calls = 0
    /\ oracle = NoOracle

UpdateBaseCost ==
    /\ calls < MaxCalls
    /\ \E load \in Loads : Feed(load)
    /\ calls' = calls + 1

NextBase == UpdateBaseCost

SpecBase == InitBase /\ [][NextBase]_vars

\* C4: every fare returned to a caller that feeds results back lies in
\* [base_min, base_max], whatever the starting fare and the load samples.
C4_BaseWithinBand ==
    op = "update_base_cost" =>
        /\ params.congestion.base_min <= ret
        /\ ret <= params.congestion.base_max
        /\ base = ret

\* C4 witness: a fed-back call whose load is above target ends at base_max.
C4_Witness ==
    /\ op = "update_base_cost"
    /\ calls >= 2
    /\ arg.current_load > params.congestion.target_load
    /\ ret = params.congestion.base_max

Margin == LoadStep
MaxOverSteps == 2
OverLoads ==
    { DefaultParams.congestion.target_load + k * Margin : k \in 1..MaxOverSteps }

InitOverload ==
    /\ op = "none"
    /\ arg = [current_base |-> 0, current_load |-> 0]
    /\ ret = 0
    /\ params = DefaultParams
    /\ base \in StartBases
    /\ calls = 0
    /\ oracle = NoOracle

\* One interval of the overloaded loop.  calls saturates at 2: the run only
\* distinguishes "before the first call", "after it" and "from the second on".
OverloadedUpdate ==
    /\ \E load \in OverLoads : Feed(load)
    /\ calls' = IF calls < 2 THEN calls + 1 ELSE calls

NextOverload == OverloadedUpdate

\* The caller invokes the update once per observation interval, for ever.
SpecOverload == InitOverload /\ [][NextOverload]_vars /\ WF_vars(NextOverload)

\* C10: under sustained overload with the default congestion settings the
\* fare never decreases from the second call on, eventually equals base_max
\* and stays there.
C10_OverloadConverges ==
    /\ [][calls >= 1 => base' >= base]_vars
    /\ <>[](base = DefaultParams.congestion.base_max)

\* C10 witness: the loop, past its second call, holds the fare at base_max.
C10_Witness ==
    /\ calls = 2
    /\ arg.current_base = DefaultParams.congestion.base_max
    /\ arg.current_load >= DefaultParams.congestion.target_load + Margin
    /\ base = DefaultParams.congestion.base_max

\* ------------------------------------------------------------------ risk

\* RiskWeights::default()
DefaultRiskWeights ==
    [ w_coord |-> 250, w_clust |-> 250, w_burst |-> 200, w_mono |-> 150, w_hist |-> 150 ]

\* RiskSignals::default(): every signal absent
DefaultRiskSignals ==
    [ coordination |-> None, clustering |-> None, burst |-> None,
      monotonicity |-> None, abuse_history |-> None ]

\* pub fn calculate_risk(signals: &Option<RiskSignals>, weights) -> f64
calculate_risk(signals, weights) ==
    LET s == unwrap_or(signals, DefaultRiskSignals)
        r == MulFix(weights.w_coord, v(s.coordination))
             + MulFix(weights.w_clust, v(s.clustering))
             + MulFix(weights.w_burst, v(s.burst))
             + MulFix(weights.w_mono, v(s.monotonicity))
             + MulFix(weights.w_hist, v(s.abuse_history))
    IN  clamp(r, 0, Scale)

\* ------------------------------------------------- propagation control

MutNoClamp_adjust_propagation(risk_signals, p) ==
    LET risk   == calculate_risk(risk_signals, DefaultRiskWeights)
        ttl    == p.propagation.ttl_base - MulFix(p.propagation.k1, risk)
        fanout == p.propagation.fanout_base - MulFix(p.propagation.k2, risk)
    IN  [ ttl |-> AsU32(RoundFix(ttl)), fanout |-> AsU32(RoundFix(fanout)) ]

\* pub fn adjust_propagation(risk_signals, params) -> PropagationResult
adjust_propagation(risk_signals, p) ==
    LET risk   == calculate_risk(risk_signals, DefaultRiskWeights)
        ttl    == clamp(p.propagation.ttl_base - MulFix(p.propagation.k1, risk),
                        Scale, p.propagation.ttl_base)
        fanout == clamp(p.propagation.fanout_base - MulFix(p.propagation.k2, risk),
                        Scale, p.propagation.fanout_base)
    IN  [ ttl |-> AsU32(RoundFix(ttl)), fanout |-> AsU32(RoundFix(fanout)) ]

\* ------------------------------------------------------- serve reward

MutNoBudgetFloor_calculate_serve_reward(input, p) ==
    LET r0        == p.reward.r0
        mu        == p.reward.mu
        w_size    == DivFix(LnFix(Scale + input.size_bytes * Scale),
                            LnFix(Scale + 1000000 * Scale))
        w_latency == DivFix(Scale, Scale + DivFix(input.ttfb_ms * Scale, 1000 * Scale))
        diversity == Scale - MulFix(mu, clamp(input.server_cluster_risk, 0, Scale))
        reward    == MulFix(MulFix(MulFix(MulFix(r0, clamp(input.client_q, 0, Scale)),
                                          w_size), w_latency), diversity)
    IN  Min2(reward, input.ticket_budget)

\* pub fn calculate_serve_reward(input: &RewardInput, params) -> f64
calculate_serve_reward(input, p) ==
    LET r0        == p.reward.r0
        mu        == p.reward.mu
        w_size    == DivFix(LnFix(Scale + input.size_bytes * Scale),
                            LnFix(Scale + 1000000 * Scale))
        w_latency == DivFix(Scale, Scale + DivFix(input.ttfb_ms * Scale, 1000 * Scale))
        diversity == Scale - MulFix(mu, clamp(input.server_cluster_risk, 0, Scale))
        reward    == MulFix(MulFix(MulFix(MulFix(r0, clamp(input.client_q, 0, Scale)),
                                          w_size), w_latency), diversity)
    IN  Min2(reward, Max2(input.ticket_budget, 0))

\* ------------------------------------------------------- posting cost

\* Stage 1: base_fare + a max(rl,0)^alpha + b max(ef,0)^beta
BaseComponents(actor, p, base_fare) ==
    LET rl_cost == MulFix(p.cost.a, PowFix(Max2(actor.rl, 0), p.cost.alpha))
        ef_cost == MulFix(p.cost.b, PowFix(Max2(actor.ef, 0), p.cost.beta))
    IN  base_fare + rl_cost + ef_cost

\* Stage 2: the risk multiplier; both risks read content.risk_signals
RiskStage(cost, content, p) ==
    LET risk_actor   == calculate_risk(content.risk_signals, DefaultRiskWeights)
        risk_content == calculate_risk(content.risk_signals, DefaultRiskWeights)
    IN  MulFix(cost, Scale + MulFix(p.cost.lambda_actor, risk_actor)
                           + MulFix(p.cost.lambda_content, risk_content))

\* Stage 3: the claim / evidence adjustment
ClaimStage(cost, content) ==
    IF unwrap_or(content.is_claim, FALSE)
    THEN IF unwrap_or(content.has_evidence, FALSE)
         THEN MulFix(cost, 700)
         ELSE MulFix(cost, 1200)
    ELSE cost

MutRawLimit_RateStage(cost, actor, p) ==
    IF actor.posts_1h = None THEN cost
    ELSE LET posts == actor.posts_1h[1]
             rate  == p.cost.rate_limit_per_hour
         IN  IF posts > rate
             THEN MulFix(cost, Scale + MulFix(500, DivFix(posts, rate) - Scale))
             ELSE cost

\* Stage 4: the rate-limit surcharge
RateStage(cost, actor, p) ==
    IF actor.posts_1h = None THEN cost
    ELSE LET posts == actor.posts_1h[1]
             rate  == Max2(p.cost.rate_limit_per_hour, Scale)
         IN  IF posts > rate
             THEN MulFix(cost, Scale + MulFix(500, DivFix(posts, rate) - Scale))
             ELSE cost

\* The running cost on entry to the rate-limit stage
CostBeforeRate(actor, content, p, base_fare) ==
    ClaimStage(RiskStage(BaseComponents(actor, p, base_fare), content, p), content)

\* pub fn calculate_post_cost(actor, content, params, base_fare) -> f64
calculate_post_cost(actor, content, p, base_fare) ==
    RateStage(CostBeforeRate(actor, content, p, base_fare), actor, p)

\* ------------------------------------------------- the engine's callers

\* pub fn apply_musk_mode_params(p: &mut Params)
apply_musk_mode_params(p) ==
    [ p EXCEPT !.q_weights.w_h = 250,
               !.propagation = [ ttl_base |-> 5000, fanout_base |-> 6000,
                                 k1 |-> 3000, k2 |-> 3000 ],
               !.cost.alpha = 800, !.cost.beta = 500,
               !.cost.a = 1400, !.cost.b = 600,
               !.cost.lambda_actor = 800, !.cost.lambda_content = 600,
               !.reward.mu = 500 ]

\* PropagationParams a caller may configure: fractional bases, bases below
\* one and below zero, sensitivities that push past either clamp bound.
PropagationSettings ==
    { [ ttl_base |-> 2500, fanout_base |-> 3200, k1 |-> 2000, k2 |-> 2000 ],
      [ ttl_base |-> 2200, fanout_base |-> 3700, k1 |-> 2000, k2 |-> 2000 ],
      [ ttl_base |-> 400,  fanout_base |-> 600,  k1 |-> 2000, k2 |-> 2000 ],
      [ ttl_base |-> -1000, fanout_base |-> 0,   k1 |-> 2000, k2 |-> 2000 ],
      [ ttl_base |-> 4000, fanout_base |-> 5000, k1 |-> 6000, k2 |-> 6000 ],
      [ ttl_base |-> 4000, fanout_base |-> 5000, k1 |-> -2000, k2 |-> -2000 ] }

\* RewardParams a caller may configure
RewardSettings ==
    { [ r0 |-> 2000, mu |-> 0 ], [ r0 |-> 1000, mu |-> 1000 ],
      [ r0 |-> 1000, mu |-> 2000 ], [ r0 |-> -1000, mu |-> 300 ] }

\* Hourly limits a caller may configure besides the default 10
RateLimits == { 500, 2000 }

EngineParams ==
    { DefaultParams, apply_musk_mode_params(DefaultParams) }
    \cup { [DefaultParams EXCEPT !.propagation = x] : x \in PropagationSettings }
    \cup { [DefaultParams EXCEPT !.reward = x] : x \in RewardSettings }
    \cup { [DefaultParams EXCEPT !.cost.rate_limit_per_hour = x] : x \in RateLimits }

\* Risk signals: each absent, 0.5 or 1.0; the whole struct absent; every
\* signal out of range above or below; the signals of test_cost_prop_reward.
SignalValues == { None, Some(500), Some(1000) }
AllSignals(x) ==
    [ coordination |-> x, clustering |-> x, burst |-> x,
      monotonicity |-> x, abuse_history |-> x ]
TestSignals ==
    [ DefaultRiskSignals EXCEPT !.coordination = Some(500), !.clustering = Some(400) ]
RiskInputs ==
    { None, Some(AllSignals(Some(3000))), Some(AllSignals(Some(-1000))), Some(TestSignals) }
    \cup { Some(r) : r \in [ coordination : SignalValues, clustering : SignalValues,
                             burst : SignalValues, monotonicity : SignalValues,
                             abuse_history : SignalValues ] }

\* Serve events
RewardInputs ==
    [ ticket_budget       : { -1000, 0, 50, 1500 },
      client_q            : { -500, 0, 800, 2000 },
      size_bytes          : { 0, 1000, 24000, 1000000, 2000000 },
      ttfb_ms             : { 0, 120, 2000 },
      server_cluster_risk : { -1000, 200, 1000, 3000 } ]

\* Posts in the last hour: absent, 0.8, or a multiple of 4 up to the bound.
PostsStep == 4 * Scale
MaxPostsSteps == 6
PostsInputs == { None, Some(800) } \cup { Some(k * PostsStep) : k \in 0..MaxPostsSteps }

Actors ==
    [ rl : { 0, 120000 }, q : { 800 }, ef : { 0, 30000 }, posts_1h : PostsInputs ]

Contents ==
    [ is_claim     : { None, Some(FALSE), Some(TRUE) },
      has_evidence : { None, Some(FALSE), Some(TRUE) },
      risk_signals : { None, Some(TestSignals) } ]

BaseFares == { 0, 1000 }

Init ==
    /\ op = "none"
    /\ arg = << >>
    /\ ret = << >>
    /\ params \in EngineParams
    /\ base = 0
    /\ calls = 0
    /\ oracle = NoOracle

AdjustPropagation ==
    \E risk_signals \in RiskInputs :
        /\ op = "none"
        /\ op' = "adjust_propagation"
        /\ arg' = [ risk_signals |-> risk_signals ]
        /\ ret' = adjust_propagation(risk_signals, params)
        /\ UNCHANGED <<params, base, calls, oracle>>

CalculateServeReward ==
    \E input \in RewardInputs :
        /\ op = "none"
        /\ op' = "calculate_serve_reward"
        /\ arg' = input
        /\ ret' = calculate_serve_reward(input, params)
        /\ UNCHANGED <<params, base, calls, oracle>>

\* The returned cost, together with the running cost the rate-limit stage
\* received.
CalculatePostCost ==
    \E actor \in Actors, content \in Contents, base_fare \in BaseFares :
        /\ op = "none"
        /\ op' = "calculate_post_cost"
        /\ arg' = [ actor |-> actor, content |-> content, base_fare |-> base_fare ]
        /\ ret' = [ cost    |-> calculate_post_cost(actor, content, params, base_fare),
                    running |-> CostBeforeRate(actor, content, params, base_fare) ]
        /\ UNCHANGED <<params, base, calls, oracle>>

\* The functions are pure and keep nothing between calls: a run of the model
\* is one call, made from the state in which nothing has been called.
Next == AdjustPropagation \/ CalculateServeReward \/ CalculatePostCost

Spec == Init /\ [][Next]_vars

\* C2 as stated: for every Params, 1 <= ttl <= ttl_base and
\* 1 <= fanout <= fanout_base.
C2_WithinBaseForEveryParams ==
    op = "adjust_propagation" =>
        /\ 1 <= ret.ttl /\ ret.ttl * Scale <= params.propagation.ttl_base
        /\ 1 <= ret.fanout /\ ret.fanout * Scale <= params.propagation.fanout_base

\* A base of at least 1 whose fractional part is below one half: rounding it
\* does not exceed it.
RoundsDown(b) == b >= Scale /\ b % Scale < Scale \div 2

\* C2 amended: when ttl_base is at least 1 and its fractional part is below
\* one half, 1 <= ttl <= ttl_base; likewise for fanout and fanout_base.
C2_WithinBaseWhenBaseRoundsDown ==
    op = "adjust_propagation" =>
        /\ RoundsDown(params.propagation.ttl_base) =>
               1 <= ret.ttl /\ ret.ttl * Scale <= params.propagation.ttl_base
        /\ RoundsDown(params.propagation.fanout_base) =>
               1 <= ret.fanout /\ ret.fanout * Scale <= params.propagation.fanout_base

\* C2 witness: full risk against a steep sensitivity; the floor 1 binds.
C2_Witness ==
    /\ op = "adjust_propagation"
    /\ RoundsDown(params.propagation.ttl_base)
    /\ params.propagation.ttl_base - params.propagation.k1 < Scale
    /\ calculate_risk(arg.risk_signals, DefaultRiskWeights) = Scale
    /\ ret.ttl = 1

\* C5 as stated: for every Params the reward is in [0, max(ticket_budget, 0)].
C5_RewardInRangeForEveryParams ==
    op = "calculate_serve_reward" =>
        0 <= ret /\ ret <= Max2(arg.ticket_budget, 0)

\* C5 amended: the reward is at most max(ticket_budget, 0) for every Params,
\* and at least 0 when r0 >= 0 and mu <= 1.
C5_RewardInRange ==
    op = "calculate_serve_reward" =>
        /\ ret <= Max2(arg.ticket_budget, 0)
        /\ (params.reward.r0 >= 0 /\ params.reward.mu <= Scale) => 0 <= ret

\* C5 witness: a reward the ticket budget caps.
C5_Witness ==
    /\ op = "calculate_serve_reward"
    /\ params.reward.r0 >= 0 /\ params.reward.mu <= Scale
    /\ arg.ticket_budget > 0
    /\ ret = arg.ticket_budget
    /\ MulFix(params.reward.r0, clamp(arg.client_q, 0, Scale)) > arg.ticket_budget

\* The surcharge factor 1 + 0.5 (posts / limit - 1)
Surcharge(posts, limit) == Scale + MulFix(500, DivFix(posts, limit) - Scale)

\* C9 as stated: the surcharge applies when posts_1h exceeds the configured
\* limit, with the configured limit as divisor; otherwise the cost is unchanged.
C9_SurchargeAgainstConfiguredLimit ==
    op = "calculate_post_cost" =>
        LET limit == params.cost.rate_limit_per_hour
            posts == arg.actor.posts_1h
        IN  IF posts # None /\ posts[1] > limit
            THEN ret.cost = MulFix(ret.running, Surcharge(posts[1], limit))
            ELSE ret.cost = ret.running

\* C9 amended: the limit in force is max(rate_limit_per_hour, 1); the
\* surcharge applies when posts_1h exceeds it, with it as divisor.
C9_SurchargeAgainstFlooredLimit ==
    op = "calculate_post_cost" =>
        LET limit == Max2(params.cost.rate_limit_per_hour, Scale)
            posts == arg.actor.posts_1h
        IN  IF posts # None /\ posts[1] > limit
            THEN ret.cost = MulFix(ret.running, Surcharge(posts[1], limit))
            ELSE ret.cost = ret.running

\* C9 witness: a configured limit below 1, posts between it and 1, and a
\* positive cost that carries no surcharge.
C9_Witness ==
    /\ op = "calculate_post_cost"
    /\ params.cost.rate_limit_per_hour < Scale
    /\ arg.actor.posts_1h # None
    /\ arg.actor.posts_1h[1] > params.cost.rate_limit_per_hour
    /\ arg.actor.posts_1h[1] <= Scale
    /\ ret.running > 0
    /\ ret.cost = ret.running

\* ------------------------------------------- tier / discount overlay

\* The literal 1e-9 that floors the divisor of usd_to_social.  USD amounts
\* and prices are counted in units of 1e-9 USD.
Eps == 1

Tiers == { "T0", "T1", "T2", "T3" }

MutSwapped_tier_discount(tier, policy) ==
    CASE tier = "T0" -> policy.discounts[4]
      [] tier = "T1" -> policy.discounts[2]
      [] tier = "T2" -> policy.discounts[3]
      [] tier = "T3" -> policy.discounts[1]

\* pub fn tier_discount(tier: Tier, policy: &TierPolicy) -> f64
tier_discount(tier, policy) ==
    CASE tier = "T0" -> policy.discounts[1]
      [] tier = "T1" -> policy.discounts[2]
      [] tier = "T2" -> policy.discounts[3]
      [] tier = "T3" -> policy.discounts[4]

\* PriceOracle::usd_per_social, as the caller sees it: the oracle answers
\* with its next quote (None when the price is unavailable) and has been
\* queried once more.  Its last quote stands for every later query.
usd_per_social(o) ==
    [ answer |-> Head(o.quotes),
      oracle |-> [ quotes  |-> IF Len(o.quotes) > 1 THEN Tail(o.quotes) ELSE o.quotes,
                   queries |-> o.queries + 1 ] ]

MutPreferFallback_usd_to_social(usd, o, fallback_usd_per_social) ==
    LET q  == usd_per_social(o)
        px == Max2(IF fallback_usd_per_social > 0 THEN fallback_usd_per_social
                   ELSE unwrap_or(q.answer, fallback_usd_per_social), Eps)
    IN  [ amount |-> DivFix(usd, px), oracle |-> q.oracle ]

\* pub fn usd_to_social(usd, oracle, fallback_usd_per_social) -> f64
\* (with the oracle as the query leaves it)
usd_to_social(usd, o, fallback_usd_per_social) ==
    LET q  == usd_per_social(o)
        px == Max2(unwrap_or(q.answer, fallback_usd_per_social), Eps)
    IN  [ amount |-> DivFix(usd, px), oracle |-> q.oracle ]

MutDiscountFirst_compute_final_cost_with_tier(actor, content, p, basefare, tier, policy, o, fallback_usd_per_social) ==
    LET disc        == tier_discount(tier, policy)
        cost        == MulFix(calculate_post_cost(actor, content, p, basefare), disc)
        cmin_social == usd_to_social(policy.cmin_usd, o, fallback_usd_per_social)
    IN  [ amount |-> IF cost < cmin_social.amount THEN cmin_social.amount ELSE cost,
          oracle |-> cmin_social.oracle ]

\* pub fn compute_final_cost_with_tier(actor, content, params, basefare, tier,
\*                                     policy, oracle, fallback_usd_per_social)
compute_final_cost_with_tier(actor, content, p, basefare, tier, policy, o, fallback_usd_per_social) ==
    LET cost        == calculate_post_cost(actor, content, p, basefare)
        cmin_social == usd_to_social(policy.cmin_usd, o, fallback_usd_per_social)
        floored     == IF cost < cmin_social.amount THEN cmin_social.amount ELSE cost
        disc        == tier_discount(tier, policy)
    IN  [ amount |-> MulFix(floored, disc), oracle |-> cmin_social.oracle ]

\* pub fn dm_escrow_social(policy, oracle, fallback_usd_per_social) -> f64
dm_escrow_social(policy, o, fallback_usd_per_social) ==
    usd_to_social(policy.dm_escrow_usd, o, fallback_usd_per_social)

\* Tier policies: the discounts of t_costs, the same discounts in reverse
\* order, no discount at all; a minimum cost that is negative, zero, positive.
DiscountTables ==
    { << 1000, 950, 850, 700 >>, << 700, 850, 950, 1000 >>, << 1000, 1000, 1000, 1000 >> }
Policies ==
    [ discounts     : DiscountTables,
      risk_factor   : { << 1000, 950, 900, 800 >> },
      dm_escrow_usd : { 30 },
      cmin_usd      : { -50, 0, 50 } ]

\* Quotes of the oracle: unavailable, a price, zero, a negative price.
Quotes == { None, Some(200), Some(0), Some(-3) }

\* StubOracle: one fixed quote.  Other oracles change their quote between
\* two queries.
StubOracles == { [ quotes |-> << x >>, queries |-> 0 ] : x \in Quotes }
Oracles ==
    StubOracles
    \cup { [ quotes |-> << x, y >>, queries |-> 0 ] : x \in Quotes, y \in Quotes }

FallbackPegs == { 0, 200 }
UsdAmounts == { 0, 5, 30, 50 }

\* The actor and content of t_costs, and an idle actor posting plain content
TierActors ==
    { [ rl |-> 120000, q |-> 800, ef |-> 30000, posts_1h |-> Some(12000) ],
      [ rl |-> 0, q |-> 800, ef |-> 0, posts_1h |-> None ] }
TierContents ==
    { [ is_claim |-> Some(TRUE), has_evidence |-> Some(FALSE), risk_signals |-> None ],
      [ is_claim |-> None, has_evidence |-> None, risk_signals |-> None ] }
TierBaseFares == BaseFares \cup { -1000 }

InitTier ==
    /\ op = "none"
    /\ arg = << >>
    /\ ret = << >>
    /\ params \in { DefaultParams, apply_musk_mode_params(DefaultParams) }
    /\ base = 0
    /\ calls = 0
    /\ oracle \in Oracles

UsdToSocial ==
    \E usd \in UsdAmounts, fallback \in FallbackPegs :
        /\ op = "none"
        /\ op' = "usd_to_social"
        /\ arg' = [ usd |-> usd, oracle |-> oracle, fallback |-> fallback ]
        /\ ret' = usd_to_social(usd, oracle, fallback).amount
        /\ oracle' = usd_to_social(usd, oracle, fallback).oracle
        /\ UNCHANGED <<params, base, calls>>

DmEscrowSocial ==
    \E policy \in Policies, fallback \in FallbackPegs :
        /\ op = "none"
        /\ op' = "dm_escrow_social"
        /\ arg' = [ usd |-> policy.dm_escrow_usd, oracle |-> oracle, fallback |-> fallback ]
        /\ ret' = dm_escrow_social(policy, oracle, fallback).amount
        /\ oracle' = dm_escrow_social(policy, oracle, fallback).oracle
        /\ UNCHANGED <<params, base, calls>>

\* The returned cost, together with the posting cost and the floor it was
\* built from.
ComputeFinalCostWithTier ==
    \E actor \in TierActors, content \in TierContents, basefare \in TierBaseFares,
       tier \in Tiers, policy \in Policies, fallback \in FallbackPegs :
        LET r == compute_final_cost_with_tier(actor, content, params, basefare, tier,
                                              policy, oracle, fallback)
        IN  /\ op = "none"
            /\ op' = "compute_final_cost_with_tier"
            /\ arg' = [ actor |-> actor, content |-> content, basefare |-> basefare,
                        tier |-> tier, policy |-> policy, oracle |-> oracle,
                        fallback |-> fallback ]
            /\ ret' = [ cost        |-> r.amount,
                        post_cost   |-> calculate_post_cost(actor, content, params, basefare),
                        cmin_social |-> usd_to_social(policy.cmin_usd, oracle, fallback).amount ]
            /\ oracle' = r.oracle
            /\ UNCHANGED <<params, base, calls>>

\* tests::t_costs with its inputs left open: the same actor, content, params,
\* base fare, policy, stub oracle and fallback peg priced under T0 and T3.
t_costs ==
    \E actor \in TierActors, content \in TierContents, basefare \in TierBaseFares,
       policy \in Policies, fallback \in FallbackPegs :
        LET c0 == compute_final_cost_with_tier(actor, content, params, basefare, "T0",
                                               policy, oracle, fallback)
            c3 == compute_final_cost_with_tier(actor, content, params, basefare, "T3",
                                               policy, c0.oracle, fallback)
        IN  /\ op = "none"
            /\ oracle \in StubOracles
            /\ op' = "t_costs"
            /\ arg' = [ actor |-> actor, content |-> content, basefare |-> basefare,
                        policy |-> policy, oracle |-> oracle, fallback |-> fallback ]
            /\ ret' = [ c0 |-> c0.amount, c3 |-> c3.amount ]
            /\ oracle' = c3.oracle
            /\ UNCHANGED <<params, base, calls>>

NextTier == UsdToSocial \/ DmEscrowSocial \/ ComputeFinalCostWithTier \/ t_costs

SpecTier == InitTier /\ [][NextTier]_vars

\* C6 as stated: for any tier policy the T3 cost is at most the T0 cost.
C6_T3AtMostT0ForAnyPolicy ==
    op = "t_costs" => ret.c3 <= ret.c0

\* C6 amended: the T3 cost is at most the T0 cost when the policy's T3
\* discount is at most its T0 discount and its minimum cost is not negative.
C6_T3AtMostT0WhenDiscountsOrdered ==
    ( /\ op = "t_costs"
      /\ arg.policy.discounts[4] <= arg.policy.discounts[1]
      /\ arg.policy.cmin_usd >= 0 ) => ret.c3 <= ret.c0

\* C6 witness: the policy of t_costs makes T3 strictly cheaper than T0.
C6_Witness ==
    /\ op = "t_costs"
    /\ arg.policy.discounts[4] < arg.policy.discounts[1]
    /\ arg.policy.cmin_usd >= 0
    /\ ret.c3 < ret.c0

\* C7 as stated: the cost is max(posting cost, floor) times the discount, and
\* with a discount below 1 and a posting cost at or below the floor it is
\* below the floor.
C7_FloorThenDiscount ==
    op = "compute_final_cost_with_tier" =>
        LET disc == arg.policy.discounts[CASE arg.tier = "T0" -> 1 [] arg.tier = "T1" -> 2
                                           [] arg.tier = "T2" -> 3 [] arg.tier = "T3" -> 4]
        IN  /\ ret.cost = RoundDiv(Max2(ret.post_cost, ret.cmin_social) * disc, Scale)
            /\ (disc < Scale /\ ret.post_cost <= ret.cmin_social)
                   => ret.cost < ret.cmin_social

\* C7 amended: as stated, the last part for a floor above zero.
C7_FloorThenDiscountPositiveFloor ==
    op = "compute_final_cost_with_tier" =>
        LET disc == arg.policy.discounts[CASE arg.tier = "T0" -> 1 [] arg.tier = "T1" -> 2
                                           [] arg.tier = "T2" -> 3 [] arg.tier = "T3" -> 4]
        IN  /\ ret.cost = RoundDiv(Max2(ret.post_cost, ret.cmin_social) * disc, Scale)
            /\ (disc < Scale /\ ret.cmin_social > 0 /\ ret.post_cost <= ret.cmin_social)
                   => ret.cost < ret.cmin_social

\* C7 witness: a posting cost under a positive floor, discounted below it.
C7_Witness ==
    /\ op = "compute_final_cost_with_tier"
    /\ arg.tier = "T3"
    /\ ret.cmin_social > 0
    /\ ret.post_cost < ret.cmin_social
    /\ ret.cost < ret.cmin_social
    /\ ret.cost > 0

\* The price a conversion must divide by: the oracle's first answer when it
\* reports one, the fallback peg otherwise, floored at 1e-9.
ExpectedPrice ==
    LET first == arg.oracle.quotes[1]
    IN  Max2(IF first # None THEN first[1] ELSE arg.fallback, Eps)

\* C8: usd_to_social and dm_escrow_social return usd / max(p, 1e-9) (to the
\* nearest representable amount) with p the oracle's price when it reports
\* one and the fallback peg only otherwise, after exactly one oracle query.
C8_ConversionUsesOracleOnce ==
    op \in { "usd_to_social", "dm_escrow_social" } =>
        /\ 2 * (IF ret * ExpectedPrice >= arg.usd * Scale
                THEN ret * ExpectedPrice - arg.usd * Scale
                ELSE arg.usd * Scale - ret * ExpectedPrice) <= ExpectedPrice
        /\ oracle.queries = arg.oracle.queries + 1

\* C8 witness: the oracle reports a price and the fallback peg differs.
C8_Witness ==
    /\ op = "dm_escrow_social"
    /\ arg.oracle.quotes[1] = Some(200)
    /\ arg.fallback = 0
    /\ ret = 150
    /\ oracle.queries = 1

\* ------------------------------------------------------- CLI adapter

\* The commands main matches
Commands == { "cost", "reward", "prop", "base", "quality", "ef", "risk" }

\* Exit status of a Rust process whose main thread panicked (the .expect()
\* calls on the file read and on the JSON parse).
PanicExitCode == 101

\* Files of the model.  A file is unreadable (read_to_string fails) or holds
\* text; a text is described by the set of commands whose input type
\* serde_json::from_str parses it into.  PropInput and RiskSignals have only
\* optional fields, so every JSON object parses into them.
Unreadable == [ readable |-> FALSE, parses_as |-> {} ]
Text(shapes) == [ readable |-> TRUE, parses_as |-> shapes ]
FileSystem ==
    [ missing |-> Unreadable,
      garbage |-> Text({}),
      array   |-> Text({ "ef" }),
      object  |-> Text({ "prop", "risk" }),
      cost    |-> Text({ "cost", "prop", "risk" }),
      reward  |-> Text({ "reward", "prop", "risk" }),
      base    |-> Text({ "base", "prop", "risk" }),
      quality |-> Text({ "quality", "prop", "risk" }) ]
Paths == DOMAIN FileSystem

MutExitOneOnPanic_main(args, fs) ==
    IF Len(args) < 3
    THEN [ exit |-> 1, stdout |-> "", stderr |-> "usage" ]
    ELSE LET cmd  == args[2]
             file == fs[args[3]]
         IN  IF ~file.readable
             THEN [ exit |-> 1, stdout |-> "", stderr |-> "panic: read" ]
             ELSE IF cmd \in Commands
             THEN IF cmd \in file.parses_as
                  THEN [ exit |-> 0, stdout |-> "json", stderr |-> "" ]
                  ELSE [ exit |-> 1, stdout |-> "", stderr |-> "panic: parse" ]
             ELSE [ exit |-> 2, stdout |-> "", stderr |-> "unknown command" ]

\* fn main(): args is env::args() (args[1] is the program name, so the
\* command is args[2] and the path args[3]); fs is the file system.
main(args, fs) ==
    IF Len(args) < 3
    THEN [ exit |-> 1, stdout |-> "", stderr |-> "usage" ]
    ELSE LET cmd  == args[2]
             file == fs[args[3]]
         IN  IF ~file.readable
             THEN [ exit |-> PanicExitCode, stdout |-> "", stderr |-> "panic: read" ]
             ELSE IF cmd \in Commands
             THEN IF cmd \in file.parses_as
                  THEN [ exit |-> 0, stdout |-> "json", stderr |-> "" ]
                  ELSE [ exit |-> PanicExitCode, stdout |-> "", stderr |-> "panic: parse" ]
             ELSE [ exit |-> 2, stdout |-> "", stderr |-> "unknown command" ]

\* Command lines: the program name followed by up to MaxArgs arguments; the
\* first is a command or an unknown word, the second a path, the rest extra.
MaxArgs == 3
CommandWords == Commands \cup { "bogus" }
RECURSIVE Extras(_)
Extras(n) == IF n = 0 THEN { << >> } ELSE { << >> } \cup { <<"extra">> \o e : e \in Extras(n - 1) }
CommandLines ==
    { << "slimechain-algo" >> }
    \cup { << "slimechain-algo", c >> : c \in CommandWords }
    \cup { << "slimechain-algo", c, f >> \o e :
             c \in CommandWords, f \in Paths, e \in Extras(MaxArgs - 2) }

InitCli ==
    /\ op = "none"
    /\ arg = << >>
    /\ ret = << >>
    /\ params = DefaultParams
    /\ base = 0
    /\ calls = 0
    /\ oracle = NoOracle

Main ==
    \E args \in CommandLines :
        /\ op = "none"
        /\ op' = "main"
        /\ arg' = args
        /\ ret' = main(args, FileSystem)
        /\ UNCHANGED <<params, base, calls, oracle>>

NextCli == Main

SpecCli == InitCli /\ [][NextCli]_vars

\* What the command line of a finished run asked for
CliTooFewArgs == Len(arg) < 3
CliUnreadable == ~FileSystem[arg[3]].readable
CliKnown      == arg[2] \in Commands
CliParses     == arg[2] \in FileSystem[arg[3]].parses_as

\* C1 as stated: exit code 1 for too few arguments and for a file that cannot
\* be read or parsed, 2 for an unknown command, 0 otherwise.
C1_ExitCodesAsStated ==
    op = "main" =>
        ret.exit = IF CliTooFewArgs THEN 1
                   ELSE IF CliUnreadable \/ (CliKnown /\ ~CliParses) THEN 1
                   ELSE IF ~CliKnown THEN 2
                   ELSE 0

\* C1 amended: exit code 1 for too few arguments; the panic status 101 when
\* the file cannot be read (whatever the command) or a known command's input
\* does not parse; 2 for an unknown command with a readable file; 0 otherwise.
C1_ExitCodes ==
    op = "main" =>
        ret.exit = IF CliTooFewArgs THEN 1
                   ELSE IF CliUnreadable THEN 101
                   ELSE IF ~CliKnown THEN 2
                   ELSE IF ~CliParses THEN 101
                   ELSE 0

\* C1 witness: a known command whose readable input does not parse.
C1_Witness ==
    /\ op = "main"
    /\ ~CliTooFewArgs
    /\ ~CliUnreadable
    /\ CliKnown
    /\ ~CliParses
    /\ ret.exit = 101

====
